---- MODULE Spec2Model ----
(***************************************************************************)
(* Day 7 of adventofcode2018: the readiness tracker (Steps), its iterator, *)
(* and the worker pool (Team) that completes the steps on a discrete       *)
(* clock.  A step is a char, modelled by its code point ('A' = 65), so     *)
(* that `step as usize` arithmetic and the natural char order are kept.    *)
(* Option<char> is modelled as a set with at most one element.             *)
(* Day 6: get_closest_point, the loop that finds the one nearest point,    *)
(* on usize numbers of UsizeBits bits.                                     *)
(***************************************************************************)
EXTENDS Integers, Sequences, FiniteSets, TLC

\* ---------------------------------------------------------------- bounds
NumLetters == 3      \* generated requirement lists use the first NumLetters letters
MaxReqs == 2         \* generated requirement lists hold at most MaxReqs pairs
MaxWorkers == 2      \* generated teams have 0..MaxWorkers workers
ExtraTicks == 2      \* ticks the clock may run past the total work of the input
UsizeBits == 2       \* day 6: a usize has UsizeBits bits
MaxPoints == 2       \* day 6: generated slices hold at most MaxPoints points

\* ------------------------------------------------------- program constants
first_index == 65    \* 'A' as usize
delay_on == 60       \* Team::new, with_delay = true
delay_off == 0       \* Team::new, with_delay = false

None == {}
Some(x) == {x}
Unwrap(o) == CHOOSE x \in o : TRUE

Letters == first_index .. (first_index + NumLetters - 1)

\* ------------------------------------------------------------ Requirement
Requirement(mbf, cb) == [must_be_finished |-> mbf, can_begin |-> cb]

\* ------------------------------------------------------------------ Steps
\* The chars a requirement list mentions (what Steps::new inserts in todo).
StepsOf(reqs) ==
    {reqs[i].must_be_finished : i \in 1..Len(reqs)}
        \cup {reqs[i].can_begin : i \in 1..Len(reqs)}

Steps_new(reqs) ==
    [requirements |-> reqs,
     todo |-> StepsOf(reqs),
     done |-> {},
     size |-> Cardinality(StepsOf(reqs))]

\* is_complete that looks at todo alone
is_complete_todo_only(s) == Cardinality(s.todo) = 0

is_complete(s) == Cardinality(s.todo) = 0 /\ Cardinality(s.done) = s.size

is_done(s, step) == step \in s.done

\* is_doable that forgets the precedence pairs
is_doable_ignoring_requirements(s, step) == TRUE

\* is_doable with a todo-membership test added in front
is_doable_pending_only(s, step) ==
    LET mine == SelectSeq(s.requirements, LAMBDA req : req.can_begin = step)
    IN  /\ step \in s.todo
        /\ \A i \in 1..Len(mine) : is_done(s, mine[i].must_be_finished)

is_doable(s, step) ==
    LET mine == SelectSeq(s.requirements, LAMBDA req : req.can_begin = step)
    IN  \A i \in 1..Len(mine) : is_done(s, mine[i].must_be_finished)

\* get_doable that walks todo and done alike
get_doable_unfiltered(s) == {step \in s.todo \cup s.done : is_doable(s, step)}

\* The Vec returned by get_doable, as the set of its elements: todo is a
\* HashSet, so the Vec holds each element once, in an unspecified order that
\* both callers erase (min, sort).
get_doable(s) == {step \in s.todo : is_doable(s, step)}

\* begin that inserts the step in todo
begin_inserts(s, step) == [s EXCEPT !.todo = @ \cup {step}]

begin(s, step) == [s EXCEPT !.todo = @ \ {step}]

finish(s, step) == [s EXCEPT !.done = @ \cup {step}]

\* do_it that begins the step and never finishes it
do_it_begin_only(s, step) == begin(s, step)

do_it(s, step) == finish(begin(s, step), step)

\* Iterator::min over the doable steps: None on an empty collection.
iter_min(S) == IF S = {} THEN None ELSE Some(CHOOSE x \in S : \A y \in S : x <= y)

\* ----------------------------------------------------------------- inputs
Pairs == {Requirement(m, c) : m \in Letters, c \in Letters}

PairLess(p, q) ==
    \/ p.must_be_finished < q.must_be_finished
    \/ p.must_be_finished = q.must_be_finished /\ p.can_begin < q.can_begin

RECURSIVE ListOf(_)
ListOf(S) ==
    IF S = {} THEN <<>>
    ELSE LET p == CHOOSE x \in S : \A y \in S \ {x} : PairLess(x, y)
         IN  <<p>> \o ListOf(S \ {p})

\* test::team_complete_simplest_instructions
SimplestInstructions == <<Requirement(65, 66)>>

\* test::team_complete_matches
SevenInstructions ==
    <<Requirement(67, 65), Requirement(67, 70), Requirement(65, 66),
      Requirement(65, 68), Requirement(66, 69), Requirement(68, 69),
      Requirement(70, 69)>>

\* The requirement lists the model is run on: every set of at most MaxReqs
\* pairs over Letters (self pairs and cycles included), listed in ascending
\* order, and the two lists of the tests.
ReqInputs ==
    {ListOf(S) : S \in {T \in SUBSET Pairs : Cardinality(T) <= MaxReqs}}
        \cup {SimplestInstructions, SevenInstructions}

\* ------------------------------------------------------------ acyclicity
\* The pairs (a, c) with (a, b) and (b, c) in R.
Compose(R) == {<<p[1][1], p[2][2]>> : p \in {q \in R \X R : q[1][2] = q[2][1]}}

RECURSIVE Closure(_, _)
Closure(R, n) == IF n = 0 THEN R ELSE Closure(R \cup Compose(R), n - 1)

Edges(reqs) ==
    {<<reqs[i].must_be_finished, reqs[i].can_begin>> : i \in 1..Len(reqs)}

\* No step precedes itself, directly or through other steps.
Acyclic(reqs) ==
    \A e \in Closure(Edges(reqs), Cardinality(StepsOf(reqs))) : e[1] # e[2]

\* ----------------------------------------------------------------- Worker
\* get_step_duration counting from zero
get_step_duration_zero_based(step) == step - first_index

get_step_duration(step) == 1 + (step - first_index)

Worker_new == [step |-> None, remaining |-> 0]

is_idle(w) == w.step = None

assign(w, step, time) == [step |-> Some(step), remaining |-> time]

\* Worker::work that counts down but keeps the step when the count ends
Worker_work_keeps_step(w) ==
    IF w.remaining = 0 THEN [worker |-> w, out |-> None]
    ELSE [worker |-> [w EXCEPT !.remaining = @ - 1], out |-> None]

\* Worker::work that reports the step with self.step.clone(), leaving it
\* in the worker, in place of self.step.take()
Worker_work_clones_step(w) ==
    IF w.remaining = 0 THEN [worker |-> w, out |-> None]
    ELSE IF w.remaining = 1
         THEN [worker |-> [w EXCEPT !.remaining = 0], out |-> w.step]
         ELSE [worker |-> [w EXCEPT !.remaining = @ - 1], out |-> None]

\* Worker::work: the worker afterwards and the Option<char> returned.
Worker_work(w) ==
    IF w.remaining = 0 THEN [worker |-> w, out |-> None]
    ELSE IF w.remaining = 1
         THEN [worker |-> [step |-> None, remaining |-> 0], out |-> w.step]
         ELSE [worker |-> [w EXCEPT !.remaining = @ - 1], out |-> None]

\* ------------------------------------------------------------------- Team
\* Team::new with the two delays exchanged
Team_new_swapped(worker_count, with_delay) ==
    [workers |-> [i \in 1..worker_count |-> Worker_new],
     delay |-> IF with_delay THEN delay_off ELSE delay_on]

Team_new(worker_count, with_delay) ==
    [workers |-> [i \in 1..worker_count |-> Worker_new],
     delay |-> IF with_delay THEN delay_on ELSE delay_off]

\* Team::work: the for loop over workers from slot i on.
RECURSIVE work_from(_, _, _)
work_from(t, s, i) ==
    IF i > Len(t.workers) THEN [team |-> t, steps |-> s]
    ELSE LET r == Worker_work(t.workers[i])
         IN  work_from([t EXCEPT !.workers[i] = r.worker],
                       IF r.out # None THEN finish(s, Unwrap(r.out)) ELSE s,
                       i + 1)

Team_work(t, s) == work_from(t, s, 1)

\* doable.sort(): the ascending Vec of a set of chars.
RECURSIVE sort(_)
sort(S) ==
    IF S = {} THEN <<>>
    ELSE LET x == CHOOSE a \in S : \A b \in S : a <= b
         IN  <<x>> \o sort(S \ {x})

\* Team::assign_work: the for loop over the sorted doable steps from index k
\* on; the first idle worker in slot order takes the step, and the loop
\* breaks when no worker is idle.
RECURSIVE assign_from(_, _, _, _)
assign_from(t, s, doable, k) ==
    IF k > Len(doable) THEN [team |-> t, steps |-> s]
    ELSE LET idle_workers == {i \in 1..Len(t.workers) : is_idle(t.workers[i])}
         IN  IF idle_workers # {}
             THEN LET w == CHOOSE i \in idle_workers :
                               \A j \in idle_workers : i <= j
                      step == doable[k]
                      time == t.delay + get_step_duration(step)
                  IN  assign_from(
                          [t EXCEPT !.workers[w] = assign(@, step, time)],
                          begin(s, step), doable, k + 1)
             ELSE [team |-> t, steps |-> s]

\* assign_work that hands out at most one step per call
assign_work_single(t, s) ==
    LET doable == sort(get_doable(s))
    IN  assign_from(t, s, SubSeq(doable, 1, IF Len(doable) > 0 THEN 1 ELSE 0), 1)

assign_work(t, s) == assign_from(t, s, sort(get_doable(s)), 1)

\* ------------------------------------------------ Team::complete_steps
RECURSIVE SumOver(_, _)
SumOver(S, d) ==
    IF S = {} THEN 0
    ELSE LET x == CHOOSE a \in S : TRUE
         IN  d + 1 + (x - first_index) + SumOver(S \ {x}, d)

\* The clock value beyond which the model stops ticking: the work of every
\* step done one after the other, and ExtraTicks more.
ClockCap(reqs, d) == SumOver(StepsOf(reqs), d) + ExtraTicks

\* part2 of main.rs: Team::new(5, true)
part2_worker_count == 5

TeamInputs ==
    (ReqInputs \X (0..MaxWorkers) \X BOOLEAN)
        \cup {<<SimplestInstructions, 1, FALSE>>,
              <<SevenInstructions, 2, FALSE>>,
              <<SevenInstructions, part2_worker_count, TRUE>>}

\* ------------------------------------------------------------- day 6: usize
\* std::usize::MAX on a machine whose usize has UsizeBits bits.
usize_MAX == 2 ^ UsizeBits - 1

Point_new(x, y) == [x |-> x, y |-> y]

VARIABLES
    steps,     \* the Steps value
    team,      \* the Team value
    clock,     \* complete_steps: let mut clock
    pc,        \* where the running function stands
    answer,    \* part1: the String the yielded steps are pushed on
    results,   \* the values complete_steps has returned so far, in order
    ref,       \* <<>>, or <<r>>: a second run r of main kept beside the first
    from,                     \* get_closest_point: from: &Point
    points,                   \* get_closest_point: points: &[Point]
    for_i,                    \* get_closest_point: the next i of `for i in`
    smallest_distance,        \* get_closest_point: let mut smallest_distance
    smallest_distance_count,  \* get_closest_point: let mut smallest_distance_count
    closest_point,            \* get_closest_point: let mut closest_point
    owner                     \* the Option<usize> get_closest_point returned

\* The variables of get_closest_point.
closest_vars ==
    <<from, points, for_i, smallest_distance, smallest_distance_count,
      closest_point, owner>>

vars == <<steps, team, clock, pc, answer, results, ref, closest_vars>>

\* Day 7 runs without a call of get_closest_point.
NoClosestCall ==
    /\ from = Point_new(0, 0)
    /\ points = <<>>
    /\ for_i = 0
    /\ smallest_distance = usize_MAX
    /\ smallest_distance_count = 0
    /\ closest_point = usize_MAX
    /\ owner = None

\* main.rs main, as the function from one state of the run to the next:
\* part1 (the for loop over Steps::next), then part2 (complete_steps on a
\* fresh Steps).  r holds the run's steps, team, clock, pc, answer, results.
main_step(r) ==
    CASE r.pc = "iterating" ->
            LET step == iter_min(get_doable(r.steps))
            IN  IF step # None
                THEN [r EXCEPT !.steps = do_it(@, Unwrap(step)),
                               !.answer = Append(@, Unwrap(step))]
                ELSE [r EXCEPT !.pc = "end"]
      [] r.pc = "end" ->
            [r EXCEPT !.steps = Steps_new(@.requirements), !.pc = "work"]
      [] r.pc = "work" ->
            LET w == Team_work(r.team, r.steps)
            IN  [r EXCEPT !.team = w.team, !.steps = w.steps, !.pc = "check"]
      [] r.pc = "check" ->
            IF is_complete(r.steps)
            THEN [r EXCEPT !.results = Append(@, r.clock), !.pc = "returned"]
            ELSE IF r.clock < ClockCap(r.steps.requirements, r.team.delay)
                 THEN LET a == assign_work(r.team, r.steps)
                      IN  [r EXCEPT !.team = a.team, !.steps = a.steps,
                                    !.clock = @ + 1, !.pc = "work"]
                 ELSE r
      [] OTHER -> r

\* The second run, when there is one, takes a step with every step of the
\* first.
follow(rs) == IF Len(rs) = 0 THEN rs ELSE <<main_step(rs[1])>>

\* ------------------------------------------------------------------ part1
\* main.rs part1: `for step in steps { answer.push(step) }`.
InitSteps ==
    /\ \E reqs \in ReqInputs : steps = Steps_new(reqs)
    /\ answer = <<>>
    /\ pc = "iterating"
    /\ team = [workers |-> <<>>, delay |-> 0]
    /\ clock = 0
    /\ results = <<>>
    /\ ref = <<>>
    /\ NoClosestCall

\* Steps::next returning Some(step): the step is done and pushed on answer.
NextSome ==
    /\ pc = "iterating"
    /\ iter_min(get_doable(steps)) # None
    /\ LET step == Unwrap(iter_min(get_doable(steps)))
       IN  /\ steps' = do_it(steps, step)
           /\ answer' = Append(answer, step)
    /\ UNCHANGED <<team, clock, pc, results>>
    /\ ref' = follow(ref)
    /\ UNCHANGED closest_vars

\* Steps::next returning None: the for loop ends.
NextNone ==
    /\ pc = "iterating"
    /\ iter_min(get_doable(steps)) = None
    /\ pc' = "end"
    /\ UNCHANGED <<steps, team, clock, answer, results>>
    /\ ref' = follow(ref)
    /\ UNCHANGED closest_vars

NextSteps == NextSome \/ NextNone

SpecSteps == InitSteps /\ [][NextSteps]_vars

\* The for loop of part1 keeps calling next until it returns None.
SpecStepsFair == SpecSteps /\ WF_vars(NextSteps)

\* ------------------------------------------------------------ the tracker
\* Steps driven directly through begin, finish and do_it, as the unit tests
\* drive it, with any letter as argument (letters the list does not mention
\* included).
InitTracker ==
    /\ \E reqs \in ReqInputs : steps = Steps_new(reqs)
    /\ answer = <<>>
    /\ pc = "tracker"
    /\ team = [workers |-> <<>>, delay |-> 0]
    /\ clock = 0
    /\ results = <<>>
    /\ ref = <<>>
    /\ NoClosestCall

Begin ==
    /\ pc = "tracker"
    /\ \E step \in Letters : steps' = begin(steps, step)
    /\ UNCHANGED <<team, clock, pc, answer, results>>
    /\ ref' = follow(ref)
    /\ UNCHANGED closest_vars

Finish ==
    /\ pc = "tracker"
    /\ \E step \in Letters : steps' = finish(steps, step)
    /\ UNCHANGED <<team, clock, pc, answer, results>>
    /\ ref' = follow(ref)
    /\ UNCHANGED closest_vars

DoIt ==
    /\ pc = "tracker"
    /\ \E step \in Letters : steps' = do_it(steps, step)
    /\ UNCHANGED <<team, clock, pc, answer, results>>
    /\ ref' = follow(ref)
    /\ UNCHANGED closest_vars

NextTracker == Begin \/ Finish \/ DoIt

SpecTracker == InitTracker /\ [][NextTracker]_vars

\* ------------------------------------------------------ complete_steps
InitTeam ==
    /\ \E in \in TeamInputs :
          /\ steps = Steps_new(in[1])
          /\ team = Team_new(in[2], in[3])
    /\ clock = 0
    /\ pc = "work"
    /\ answer = <<>>
    /\ results = <<>>
    /\ ref = <<>>
    /\ NoClosestCall

\* self.work(&mut steps)
Work ==
    /\ pc = "work"
    /\ LET r == Team_work(team, steps)
       IN  /\ team' = r.team
           /\ steps' = r.steps
    /\ pc' = "check"
    /\ UNCHANGED <<clock, answer, results>>
    /\ ref' = follow(ref)
    /\ UNCHANGED closest_vars

\* if steps.is_complete() { return clock; }
Return ==
    /\ pc = "check"
    /\ is_complete(steps)
    /\ results' = Append(results, clock)
    /\ pc' = "returned"
    /\ UNCHANGED <<steps, team, clock, answer>>
    /\ ref' = follow(ref)
    /\ UNCHANGED closest_vars

\* self.assign_work(&mut steps); clock += 1; and around the loop
AssignWork ==
    /\ pc = "check"
    /\ ~is_complete(steps)
    /\ clock < ClockCap(steps.requirements, team.delay)
    /\ LET r == assign_work(team, steps)
       IN  /\ team' = r.team
           /\ steps' = r.steps
    /\ clock' = clock + 1
    /\ pc' = "work"
    /\ UNCHANGED <<answer, results>>
    /\ ref' = follow(ref)
    /\ UNCHANGED closest_vars

NextTeam == Work \/ Return \/ AssignWork

SpecTeam == InitTeam /\ [][NextTeam]_vars

\* complete_steps entered with an acyclic list and a team of at least one
\* worker.
InitTeamAcyclic ==
    /\ InitTeam
    /\ Acyclic(steps.requirements)
    /\ Len(team.workers) >= 1

\* The loop of complete_steps runs on without pause.
SpecTeamFair == InitTeamAcyclic /\ [][NextTeam]_vars /\ WF_vars(NextTeam)

\* ------------------------------------------- one input under both delays
\* A list completed twice by teams of one size: first by Team::new(n, false),
\* then, on a fresh Steps of the same list, by Team::new(n, true).
InitDelay ==
    /\ \E in \in ReqInputs \X (0..MaxWorkers) :
          /\ steps = Steps_new(in[1])
          /\ team = Team_new(in[2], FALSE)
    /\ clock = 0
    /\ pc = "work"
    /\ answer = <<>>
    /\ results = <<>>
    /\ ref = <<>>
    /\ NoClosestCall

WithDelay ==
    /\ pc = "returned"
    /\ Len(results) = 1
    /\ steps' = Steps_new(steps.requirements)
    /\ team' = Team_new(Len(team.workers), TRUE)
    /\ clock' = 0
    /\ pc' = "work"
    /\ UNCHANGED <<answer, results>>
    /\ ref' = follow(ref)
    /\ UNCHANGED closest_vars

NextDelay == Work \/ Return \/ AssignWork \/ WithDelay

SpecDelay == InitDelay /\ [][NextDelay]_vars

\* --------------------------------------------- complete_steps, called twice
\* The lists of the second call: the list of the first call and the two
\* lists of the tests.
SecondLists == {steps.requirements, SimplestInstructions, SevenInstructions}

\* team.complete_steps(steps) on the Team of a call that has returned, with
\* a Steps built anew; beside it starts the same call on a Team made by
\* Team::new with the same worker_count and with_delay.
Again ==
    /\ pc = "returned"
    /\ Len(results) = 1
    /\ \E reqs \in SecondLists :
          /\ steps' = Steps_new(reqs)
          /\ ref' = <<[steps |-> Steps_new(reqs),
                       team |-> Team_new(Len(team.workers),
                                         team.delay = delay_on),
                       clock |-> 0, pc |-> "work",
                       answer |-> <<>>, results |-> <<>>]>>
    /\ clock' = 0
    /\ pc' = "work"
    /\ UNCHANGED <<team, answer, results>>
    /\ UNCHANGED closest_vars

NextAgain == Work \/ Return \/ AssignWork \/ Again

SpecAgain == InitTeam /\ [][NextAgain]_vars

\* ------------------------------------------------------------------ main
\* Every Vec that lists the chars of S once each.
RECURSIVE Perms(_)
Perms(S) ==
    IF S = {} THEN {<<>>}
    ELSE UNION {{<<x>> \o q : q \in Perms(S \ {x})} : x \in S}

\* The Vecs get_doable can return: todo.iter() walks the HashSet in an order
\* the program does not control, and filter keeps that order, so the doable
\* steps come out in any order.
get_doable_vecs(s) == Perms(get_doable(s))

\* .iter().next() in place of .iter().min()
vec_first(v) == IF Len(v) = 0 THEN None ELSE Some(v[1])

\* Iterator::min over a Vec<char>.
vec_min(v) ==
    IF Len(v) = 0 THEN None
    ELSE Some(v[CHOOSE i \in 1..Len(v) : \A j \in 1..Len(v) : v[i] <= v[j]])

\* the Vec of get_doable left as it came, without doable.sort()
vec_unsorted(v) == v

\* doable.sort() on a Vec<char> in any order.
RECURSIVE vec_sort(_)
vec_sort(v) ==
    IF Len(v) = 0 THEN v
    ELSE LET i == CHOOSE k \in 1..Len(v) : \A j \in 1..Len(v) : v[k] <= v[j]
         IN  <<v[i]>> \o vec_sort(SubSeq(v, 1, i - 1) \o SubSeq(v, i + 1, Len(v)))

Reverse(q) == [i \in 1..Len(q) |-> q[Len(q) + 1 - i]]

\* The same pairs listed otherwise: in the opposite order, and every pair
\* twice.
Variants(reqs) == {Reverse(reqs), reqs \o reqs}

\* main on a list of requirements, with any pool and either delay in place
\* of part2's Team::new(5, true); beside it runs main on the list `reqs`
\* the first list is a variant of, with get_doable's Vec in ascending order.
InitMain ==
    /\ \E reqs \in ReqInputs, n \in 1..MaxWorkers, with_delay \in BOOLEAN :
          /\ \E variant \in Variants(reqs) : steps = Steps_new(variant)
          /\ team = Team_new(n, with_delay)
          /\ ref = <<[steps |-> Steps_new(reqs),
                      team |-> Team_new(n, with_delay),
                      clock |-> 0, pc |-> "iterating",
                      answer |-> <<>>, results |-> <<>>]>>
    /\ clock = 0
    /\ pc = "iterating"
    /\ answer = <<>>
    /\ results = <<>>
    /\ NoClosestCall

\* Steps::next returning Some(step), from whatever Vec get_doable returns.
NextSomeAnyOrder ==
    /\ pc = "iterating"
    /\ \E v \in get_doable_vecs(steps) :
          /\ vec_min(v) # None
          /\ steps' = do_it(steps, Unwrap(vec_min(v)))
          /\ answer' = Append(answer, Unwrap(vec_min(v)))
    /\ UNCHANGED <<team, clock, pc, results>>
    /\ ref' = follow(ref)
    /\ UNCHANGED closest_vars

\* Steps::next returning None.
NextNoneAnyOrder ==
    /\ pc = "iterating"
    /\ \E v \in get_doable_vecs(steps) : vec_min(v) = None
    /\ pc' = "end"
    /\ UNCHANGED <<steps, team, clock, answer, results>>
    /\ ref' = follow(ref)
    /\ UNCHANGED closest_vars

\* part2: let steps = instructions.steps(); and into complete_steps
Part2 ==
    /\ pc = "end"
    /\ steps' = Steps_new(steps.requirements)
    /\ pc' = "work"
    /\ UNCHANGED <<team, clock, answer, results>>
    /\ ref' = follow(ref)
    /\ UNCHANGED closest_vars

\* assign_work from whatever Vec get_doable returns; clock += 1
AssignWorkAnyOrder ==
    /\ pc = "check"
    /\ ~is_complete(steps)
    /\ clock < ClockCap(steps.requirements, team.delay)
    /\ \E v \in get_doable_vecs(steps) :
          LET r == assign_from(team, steps, vec_sort(v), 1)
          IN  /\ team' = r.team
              /\ steps' = r.steps
    /\ clock' = clock + 1
    /\ pc' = "work"
    /\ UNCHANGED <<answer, results>>
    /\ ref' = follow(ref)
    /\ UNCHANGED closest_vars

NextMain ==
    \/ NextSomeAnyOrder
    \/ NextNoneAnyOrder
    \/ Part2
    \/ Work
    \/ Return
    \/ AssignWorkAnyOrder

SpecMain == InitMain /\ [][NextMain]_vars

\* ------------------------------------------------ day 6: get_closest_point
\* abs_diff(from, to): the larger less the smaller, which cannot overflow.
abs_diff(a, b) == IF a > b THEN a - b ELSE b - a

\* distance(from, to): the usize sum of the two differences.  A sum above
\* usize::MAX panics where overflow checks are compiled in (None here) and
\* wraps around where they are not.
distance(p, q) ==
    LET sum == abs_diff(p.x, q.x) + abs_diff(p.y, q.y)
    IN  IF sum <= usize_MAX
        THEN {Some(sum)}
        ELSE {None, Some(sum % (2 ^ UsizeBits))}

\* Every Point of the machine, and every slice of at most MaxPoints of them.
Points == {Point_new(x, y) : x \in 0..usize_MAX, y \in 0..usize_MAX}

PointSlices == UNION {[1..n -> Points] : n \in 0..MaxPoints}

\* get_closest_point(from, points) entered: the three let mut.
InitClosest ==
    /\ from \in Points
    /\ points \in PointSlices
    /\ for_i = 0
    /\ smallest_distance = usize_MAX
    /\ smallest_distance_count = 0
    /\ closest_point = usize_MAX
    /\ owner = None
    /\ pc = "for"
    /\ steps = Steps_new(<<>>)
    /\ team = Team_new(0, FALSE)
    /\ clock = 0
    /\ answer = <<>>
    /\ results = <<>>
    /\ ref = <<>>

\* One turn of `for i in 0..points.len()` in which distance returns:
\* points[i] of the code is points[for_i + 1] here.
Compare ==
    /\ pc = "for"
    /\ for_i < Len(points)
    /\ \E d \in distance(from, points[for_i + 1]) :
          /\ d # None
          /\ LET dist == Unwrap(d)
             IN  IF dist < smallest_distance
                 THEN /\ smallest_distance' = dist
                      /\ smallest_distance_count' = 1
                      /\ closest_point' = for_i
                 ELSE IF dist = smallest_distance
                 THEN /\ smallest_distance_count' = smallest_distance_count + 1
                      /\ UNCHANGED <<smallest_distance, closest_point>>
                 ELSE UNCHANGED <<smallest_distance, smallest_distance_count,
                                  closest_point>>
    /\ for_i' = for_i + 1
    /\ UNCHANGED <<from, points, owner, pc>>
    /\ UNCHANGED <<steps, team, clock, answer, results, ref>>

\* One turn of the loop in which the sum in distance overflows and panics.
Overflow ==
    /\ pc = "for"
    /\ for_i < Len(points)
    /\ None \in distance(from, points[for_i + 1])
    /\ pc' = "panicked"
    /\ UNCHANGED closest_vars
    /\ UNCHANGED <<steps, team, clock, answer, results, ref>>

\* After the loop: Some(closest_point) if smallest_distance_count == 1,
\* None otherwise.
ReturnClosest ==
    /\ pc = "for"
    /\ for_i = Len(points)
    /\ owner' = IF smallest_distance_count = 1
                THEN Some(closest_point) ELSE None
    /\ pc' = "returned"
    /\ UNCHANGED <<from, points, for_i, smallest_distance,
                   smallest_distance_count, closest_point>>
    /\ UNCHANGED <<steps, team, clock, answer, results, ref>>

NextClosest == Compare \/ Overflow \/ ReturnClosest

SpecClosest == InitClosest /\ [][NextClosest]_vars

\* ============================================================ vocabulary
Universe == StepsOf(steps.requirements)

\* The must_be_finished steps of the pairs whose can_begin is t.
Preds(t) ==
    {steps.requirements[i].must_be_finished :
        i \in {j \in 1..Len(steps.requirements) :
                  steps.requirements[j].can_begin = t}}

\* The can_begin steps of the pairs whose must_be_finished is t.
Succs(t) ==
    {steps.requirements[i].can_begin :
        i \in {j \in 1..Len(steps.requirements) :
                  steps.requirements[j].must_be_finished = t}}

AcyclicInput == Acyclic(steps.requirements)

Busy == {i \in 1..Len(team.workers) : team.workers[i].step # None}

Held == {Unwrap(team.workers[i].step) : i \in Busy}

Range(q) == {q[i] : i \in 1..Len(q)}

\* ================================================================ claims

\* C1: for an acyclic precedence set, every step the iterator yields is the
\* smallest of the steps that were doable when it was yielded (not yielded
\* before, all predecessors yielded before), and once the iterator has
\* returned None every pair has its must_be_finished strictly before its
\* can_begin in the yielded sequence.
C1_TopologicalMinOrder ==
    AcyclicInput =>
        /\ \A i \in 1..Len(answer) :
              LET before == {answer[j] : j \in 1..(i - 1)}
                  ready == {t \in Universe \ before : Preds(t) \subseteq before}
              IN  /\ answer[i] \in ready
                  /\ \A t \in ready : answer[i] <= t
        /\ pc = "end" =>
              \A k \in 1..Len(steps.requirements) :
                  \E i, j \in 1..Len(answer) :
                      /\ i < j
                      /\ answer[i] = steps.requirements[k].must_be_finished
                      /\ answer[j] = steps.requirements[k].can_begin

\* The iterator has ended on an acyclic list whose order the pairs force
\* against the alphabet (a larger letter yielded before a smaller one).
C1_Witness ==
    /\ pc = "end"
    /\ AcyclicInput
    /\ Len(steps.requirements) >= 2
    /\ \E i \in 1..(Len(answer) - 1) : answer[i] > answer[i + 1]

\* C2: a step held by a worker has every predecessor in done, none in todo
\* and none held by a worker; this holds from the state right after its
\* assignment on, for every list, pool size and delay.
C2_PredecessorsDone ==
    pc \in {"work", "check", "returned"} =>
        \A i \in Busy :
            \A m \in Preds(Unwrap(team.workers[i].step)) :
                /\ m \in steps.done
                /\ m \notin steps.todo
                /\ m \notin Held

\* Right after an assignment phase, two workers are busy and one of them
\* holds a step that has a predecessor.
C2_Witness ==
    /\ pc = "work"
    /\ Cardinality(Busy) >= 2
    /\ \E i \in Busy :
          /\ Preds(Unwrap(team.workers[i].step)) # {}
          /\ team.workers[i].remaining =
                 team.delay + 1 + (Unwrap(team.workers[i].step) - first_index)

\* C3: with an acyclic list and at least one worker, complete_steps
\* returns, and then todo is empty and done is the whole universe.
C3_Terminates ==
    (pc = "work" /\ AcyclicInput /\ Len(team.workers) >= 1)
        ~> (pc = "returned" /\ steps.todo = {} /\ steps.done = Universe)

\* complete_steps has returned on an acyclic list of three steps.
C3_Witness ==
    /\ pc = "returned"
    /\ AcyclicInput
    /\ Len(team.workers) >= 1
    /\ Cardinality(Universe) >= 3
    /\ steps.done = Universe

\* C4: two workers, no delay, the seven pairs of the test: 15 is returned.
C4_SevenReturns15 ==
    (/\ pc = "returned"
     /\ steps.requirements = SevenInstructions
     /\ Len(team.workers) = 2
     /\ team.delay = 0) => results = <<15>>

C4_Witness ==
    /\ pc = "returned"
    /\ steps.requirements = SevenInstructions
    /\ Len(team.workers) = 2
    /\ team.delay = 0
    /\ clock = 15

\* C5: one worker and an acyclic list: the value returned is the sum over
\* the universe of delay + duration.
C5_SingleWorkerSum ==
    (pc = "returned" /\ Len(team.workers) = 1 /\ AcyclicInput)
        => results = <<SumOver(Universe, team.delay)>>

\* One worker has completed three steps with the delay of 60.
C5_Witness ==
    /\ pc = "returned"
    /\ Len(team.workers) = 1
    /\ AcyclicInput
    /\ team.delay = 60
    /\ Cardinality(Universe) = 3
    /\ results = <<186>>

\* C6: for an acyclic list the iterator never yields a step twice, and when
\* it returns None it has yielded the whole universe, as many steps as the
\* list mentions.
C6_EveryTaskOnce ==
    AcyclicInput =>
        /\ \A i, j \in 1..Len(answer) : answer[i] = answer[j] => i = j
        /\ pc = "end" =>
              /\ Range(answer) = Universe
              /\ Len(answer) = Cardinality(Universe)

\* The iterator has ended after yielding the six steps of the test list.
C6_Witness ==
    /\ pc = "end"
    /\ AcyclicInput
    /\ Len(answer) = 6

\* C7: for an acyclic list and one pool size, the value returned with the
\* delay (60) is at least the value returned without it (0).
C7_DelayMonotone ==
    (AcyclicInput /\ Len(results) = 2) => results[2] >= results[1]

\* Two workers have completed a list of at least two steps under both
\* delays, and the second value is the larger.
C7_Witness ==
    /\ AcyclicInput
    /\ Cardinality(Universe) >= 2
    /\ Len(team.workers) = 2
    /\ team.delay = 60
    /\ Len(results) = 2
    /\ results[2] > results[1]

\* C8 as stated: for every step of the universe, is_doable is true exactly
\* when the step is still in todo and all its predecessors are in done.
C8_DoableIffPendingAndReady ==
    pc = "tracker" =>
        \A t \in Universe :
            is_doable(steps, t) <=> (t \in steps.todo /\ Preds(t) \subseteq steps.done)

\* C8 amended: for every identifier, is_doable is true exactly when all the
\* predecessors of the step are in done, whether or not the step is still
\* in todo.
C8_DoableIffPredecessorsDone ==
    pc = "tracker" =>
        \A t \in Letters \cup Universe :
            is_doable(steps, t) <=> Preds(t) \subseteq steps.done

\* A step that has left todo is reported doable while another step, whose
\* predecessor is not done, is not.
C8_Witness ==
    /\ pc = "tracker"
    /\ \E t \in Universe \ steps.todo : Preds(t) # {} /\ is_doable(steps, t)
    /\ \E u \in Universe : ~is_doable(steps, u)

\* C9: get_doable returns exactly the steps of todo whose predecessors are
\* all in done; a step begun and not finished is not returned, and neither
\* is any step it must precede.
C9_GetDoableExact ==
    pc = "tracker" =>
        /\ get_doable(steps) = {t \in steps.todo : Preds(t) \subseteq steps.done}
        /\ \A t \in Universe \ (steps.todo \cup steps.done) :
              /\ t \notin get_doable(steps)
              /\ Succs(t) \cap get_doable(steps) = {}

\* A step with a successor is begun and not finished, its successor waits
\* in todo, and another step is doable.
C9_Witness ==
    /\ pc = "tracker"
    /\ get_doable(steps) # {}
    /\ \E t \in Universe \ (steps.todo \cup steps.done) :
          Succs(t) \cap steps.todo # {}

\* C10 as stated: is_complete is true exactly when todo is empty and every
\* step of the universe is in done.
C10_CompleteIffAllDone ==
    pc = "tracker" =>
        (is_complete(steps) <=> (steps.todo = {} /\ Universe \subseteq steps.done))

\* C10 amended: is_complete is true exactly when todo is empty and done
\* holds as many identifiers as the universe has steps; as long as done
\* holds only steps of the universe, that is exactly when todo is empty and
\* every step of the universe is in done.
C10_CompleteIffCounts ==
    pc = "tracker" =>
        /\ is_complete(steps) <=>
              (steps.todo = {} /\ Cardinality(steps.done) = Cardinality(Universe))
        /\ steps.done \subseteq Universe =>
              (is_complete(steps) <=>
                  (steps.todo = {} /\ Universe \subseteq steps.done))

\* is_complete holds although a step of the universe was never finished:
\* an identifier from outside the universe fills its place in done.
C10_Witness ==
    /\ pc = "tracker"
    /\ is_complete(steps)
    /\ Universe \ steps.done # {}

\* Every step of the universe has been begun and finished.
AllBegunAndFinished == steps.todo = {} /\ Universe \subseteq steps.done

\* C11 as stated: is_complete is false while todo is not empty, and from a
\* state where every step has been begun and finished it is true and stays
\* true whatever begin or finish call comes next.
C11_CompleteForever ==
    /\ [](steps.todo # {} => ~is_complete(steps))
    /\ [][(Universe # {} /\ AllBegunAndFinished)
              => (is_complete(steps) /\ is_complete(steps'))]_vars

\* C11 amended: is_complete is false while todo is not empty; it is true
\* when todo is empty and done is exactly the universe; and once true it
\* stays true through every begin, and through every finish that leaves
\* done within the universe.
C11_CompleteWhileDoneInUniverse ==
    /\ [](steps.todo # {} => ~is_complete(steps))
    /\ []((steps.todo = {} /\ steps.done = Universe) => is_complete(steps))
    /\ [][(is_complete(steps) /\ steps'.done \subseteq Universe)
              => is_complete(steps')]_vars

\* Every step of a universe of at least two has been begun and finished,
\* and is_complete holds.
C11_Witness ==
    /\ pc = "tracker"
    /\ Cardinality(Universe) >= 2
    /\ AllBegunAndFinished
    /\ is_complete(steps)

\* A state of the loop that repeats for ever: the steps are not complete,
\* no worker is busy and the assignment phase changes nothing, so every
\* later tick finds the same team and the same steps.
Standstill ==
    /\ pc = "check"
    /\ ~is_complete(steps)
    /\ Busy = {}
    /\ assign_work(team, steps) = [team |-> team, steps |-> steps]

\* C12 as stated: with a cycle in the list complete_steps never returns,
\* is_complete stays false, and the state the loop settles in has nothing
\* doable while todo is not empty (whatever the team).
C12_CyclicSettlesWithNothingDoable ==
    ~AcyclicInput =>
        /\ pc # "returned"
        /\ ~is_complete(steps)
        /\ Standstill => (get_doable(steps) = {} /\ steps.todo # {})

\* C12 amended: with a cycle in the list complete_steps never returns:
\* is_complete is false and todo not empty in every state, the loop can
\* always take its next tick (only the clock cap of the model stops it), and
\* for a team of at least one worker nothing is doable from the tick on
\* that equals the total work of the universe.
C12_CyclicNeverReturns ==
    ~AcyclicInput =>
        /\ pc # "returned"
        /\ ~is_complete(steps)
        /\ steps.todo # {}
        /\ (pc = "check" /\ clock < ClockCap(steps.requirements, team.delay))
              => ENABLED AssignWork
        /\ (Len(team.workers) >= 1 /\ clock >= SumOver(Universe, team.delay))
              => (get_doable(steps) = {} /\ Busy = {})

\* A team with a worker has done the steps off the cycle and ticks on with
\* nothing doable, up to the clock cap.
C12_Witness ==
    /\ ~AcyclicInput
    /\ Len(team.workers) >= 1
    /\ steps.done # {}
    /\ steps.todo # {}
    /\ get_doable(steps) = {}
    /\ clock = ClockCap(steps.requirements, team.delay)

\* The steps on a cycle of the list, and the steps a cycle leads to.
OnCycle ==
    {t \in Universe :
        <<t, t>> \in Closure(Edges(steps.requirements), Cardinality(Universe))}

DownstreamOfCycle ==
    {t \in Universe :
        \E c \in OnCycle :
            <<c, t>> \in Closure(Edges(steps.requirements), Cardinality(Universe))}

OffCycles == Universe \ (OnCycle \cup DownstreamOfCycle)

\* C13: with a cycle in the list the iterator still ends: next returns
\* None, and nothing else, as soon as nothing is doable; the steps yielded
\* by then are, each once, exactly the steps neither on a cycle nor
\* downstream of one, fewer than the universe holds.
C13_CyclicIteratorEndsShort ==
    /\ [](~AcyclicInput =>
            /\ \A i, j \in 1..Len(answer) : answer[i] = answer[j] => i = j
            /\ Range(answer) \subseteq OffCycles
            /\ (pc = "iterating" /\ get_doable(steps) = {})
                  => (ENABLED NextNone /\ ~ENABLED NextSome)
            /\ (pc = "iterating" /\ get_doable(steps) # {}) => ~ENABLED NextNone
            /\ pc = "end" =>
                  /\ get_doable(steps) = {}
                  /\ Range(answer) = OffCycles
                  /\ Len(answer) < Cardinality(Universe))
    /\ (~AcyclicInput ~> pc = "end")

\* The iterator has ended on a list with a cycle after yielding the steps
\* off the cycle.
C13_Witness ==
    /\ pc = "end"
    /\ ~AcyclicInput
    /\ answer # <<>>
    /\ Len(answer) < Cardinality(Universe)

\* C14: the run on a list with its pairs reordered or duplicated, with
\* get_doable's Vec in any order, stands where the run on the original list
\* stands and has produced the same outputs: the same yielded sequence and
\* the same returned value.
C14_OutputsUnchanged ==
    Len(ref) = 1 =>
        /\ pc = ref[1].pc
        /\ answer = ref[1].answer
        /\ results = ref[1].results

\* Both runs have returned from complete_steps with two workers, on
\* different lists of the same three or more steps.
C14_Witness ==
    /\ Len(ref) = 1
    /\ pc = "returned"
    /\ steps.requirements # ref[1].steps.requirements
    /\ Len(team.workers) = 2
    /\ Len(answer) >= 3
    /\ answer = ref[1].answer
    /\ results = ref[1].results
    /\ results # <<>>

\* The steps assigned by the step from the current state to the next: those
\* a worker holds afterwards and did not hold before.
NewlyHeld ==
    {t \in Universe :
        \E i \in 1..Len(team.workers) :
            /\ team'.workers[i].step = Some(t)
            /\ team.workers[i].step # Some(t)}

\* While the team works, todo never grows, done never shrinks, and a step
\* is assigned only out of todo, which it leaves.
AssignedOutOfTodo ==
    (pc \in {"work", "check"}) =>
        /\ steps'.todo \subseteq steps.todo
        /\ steps.done \subseteq steps'.done
        /\ \A t \in NewlyHeld :
              /\ t \in steps.todo
              /\ t \notin steps'.todo
              /\ t \notin steps.done

\* C15: in complete_steps, before and after each phase, todo, the steps
\* held by workers and done are pairwise disjoint and together the
\* universe, and no two workers hold the same step; a step is assigned only
\* out of todo, which it leaves for good (todo never grows while the team
\* works), so no step is assigned twice.  In the iterator, todo and done
\* are disjoint and together the universe after every next.
C15_Partition ==
    /\ [](pc \in {"work", "check", "returned"} =>
            /\ steps.todo \cap Held = {}
            /\ steps.todo \cap steps.done = {}
            /\ Held \cap steps.done = {}
            /\ steps.todo \cup Held \cup steps.done = Universe
            /\ \A i, j \in Busy :
                  team.workers[i].step = team.workers[j].step => i = j)
    /\ [](pc \in {"iterating", "end"} =>
            /\ steps.todo \cap steps.done = {}
            /\ steps.todo \cup steps.done = Universe)
    /\ [][AssignedOutOfTodo]_vars

\* Between two phases, two workers hold steps while some steps wait in
\* todo and others are done.
C15_Witness ==
    /\ pc = "work"
    /\ Cardinality(Held) = 2
    /\ steps.todo # {}
    /\ steps.done # {}

\* The test of is_complete sits between the work phase and the assignment
\* phase of a tick: when it holds there the call returns the clock and
\* touches neither the steps nor the team, when it does not hold the call
\* goes on to the next tick, and the call returns from nowhere else.
ReturnsAtFirstCompleteCheck ==
    /\ (pc = "check" /\ is_complete(steps)) =>
          /\ pc' = "returned"
          /\ results' = Append(results, clock)
          /\ steps' = steps
          /\ team' = team
    /\ (pc = "check" /\ ~is_complete(steps)) =>
          /\ pc' = "work"
          /\ clock' = clock + 1
          /\ results' = results
    /\ (pc' = "returned" /\ pc # "returned") => pc = "check"

\* C16: complete_steps tests is_complete after the work phase and before
\* the assignment phase of the same tick and returns the clock of the
\* first tick where it holds; for an acyclic list and at least one worker
\* every tick from 1 on enters its work phase with a worker that has work
\* left to do; the empty list returns 0.
C16_ReturnsFirstCompleteClock ==
    /\ [][ReturnsAtFirstCompleteCheck]_vars
    /\ []((pc = "work" /\ clock >= 1 /\ AcyclicInput /\ Len(team.workers) >= 1)
            => \E i \in Busy : team.workers[i].remaining >= 1)
    /\ []((pc = "returned" /\ Universe = {}) => results = <<0>>)

\* A call on an acyclic list with a worker has returned after three ticks
\* or more.
C16_Witness ==
    /\ pc = "returned"
    /\ AcyclicInput
    /\ Len(team.workers) >= 1
    /\ results[1] >= 3

\* The workers that are idle in the current state.
Idle == {i \in 1..Len(team.workers) : team.workers[i].step = None}

\* The smaller of two numbers.
Min2(a, b) == IF a <= b THEN a ELSE b

\* What an assignment phase does, told from the states before and after
\* it: A is the set of steps taken out of todo, W the set of workers that
\* were idle and are no longer.
AssignsSmallestToFirstIdle ==
    (pc = "check" /\ pc' = "work") =>
        LET doable == {t \in steps.todo : \A p \in Preds(t) : p \in steps.done}
            k == Min2(Cardinality(Idle), Cardinality(doable))
            A == steps.todo \ steps'.todo
            W == {i \in Idle : team'.workers[i].step # None}
            left == {t \in steps'.todo : \A p \in Preds(t) : p \in steps'.done}
        IN  /\ Cardinality(A) = k
            /\ A \subseteq doable
            /\ \A a \in A : \A b \in doable \ A : a < b
            /\ Cardinality(W) = k
            /\ \A i \in W : \A j \in Idle \ W : i < j
            /\ {Unwrap(team'.workers[i].step) : i \in W} = A
            /\ \A i, j \in W :
                  i < j => Unwrap(team'.workers[i].step)
                             < Unwrap(team'.workers[j].step)
            /\ \A i \in 1..Len(team.workers) :
                  i \notin W => team'.workers[i] = team.workers[i]
            /\ steps'.done = steps.done
            /\ \/ \A i \in 1..Len(team.workers) : team'.workers[i].step # None
               \/ left = {}
            /\ left = doable \ A
            /\ \A t \in left : \A a \in A : a < t

\* C17: in each assignment phase, with k the smaller of the number of idle
\* workers and the number of doable steps, exactly the k smallest doable
\* steps are assigned, the i-th smallest to the i-th idle worker in slot
\* order; afterwards either no worker is idle or no step of todo is
\* doable, and every doable step left waiting is larger than every step
\* assigned in that tick.
C17_SmallestFirstIdle == [][AssignsSmallestToFirstIdle]_vars

\* After an assignment phase the first worker has just taken a step while
\* the second goes on with an older one, and a doable step waits.
C17_Witness ==
    /\ pc = "work"
    /\ Len(team.workers) = 2
    /\ team.workers[1].step # None
    /\ team.workers[2].step # None
    /\ team.workers[1].remaining
          = team.delay + get_step_duration(Unwrap(team.workers[1].step))
    /\ team.workers[2].remaining
          < team.delay + get_step_duration(Unwrap(team.workers[2].step))
    /\ \E t \in steps.todo : \A p \in Preds(t) : p \in steps.done

\* The time a step takes by its letter: 1 for 'A' up to 26 for 'Z'.
LetterNumber(t) == (t - first_index) + 1

\* The clock value of the work phase in which worker i, as it stands, will
\* have counted down to zero: before the work phase of the current tick
\* the phase itself counts, after it no longer does.
Due(i) == clock + team.workers[i].remaining - (IF pc = "work" THEN 1 ELSE 0)

DuePrimed(i) ==
    clock' + team'.workers[i].remaining - (IF pc' = "work" THEN 1 ELSE 0)

\* One step of complete_steps seen from each worker: a step taken at clock
\* c is due at c + delay + duration; a held step stays due at the same
\* clock with at least one tick left; a step is given up only in the work
\* phase at the clock it is due, when it enters done and leaves the worker
\* idle with counter 0.
OccupiesForDelayPlusDuration ==
    (pc \in {"work", "check"}) =>
        \A i \in 1..Len(team.workers) :
            LET w == team.workers[i]
                v == team'.workers[i]
            IN  /\ (v.step # None /\ v.step # w.step) =>
                      /\ w.step = None
                      /\ pc = "check" /\ pc' = "work"
                      /\ v.remaining
                            = team.delay + LetterNumber(Unwrap(v.step))
                      /\ DuePrimed(i)
                            = clock + team.delay + LetterNumber(Unwrap(v.step))
                /\ (w.step # None /\ v.step = w.step) =>
                      /\ v.remaining >= 1
                      /\ DuePrimed(i) = Due(i)
                /\ (w.step # None /\ v.step # w.step) =>
                      /\ pc = "work" /\ pc' = "check"
                      /\ clock = Due(i)
                      /\ v = [step |-> None, remaining |-> 0]
                      /\ Unwrap(w.step) \notin steps.done
                      /\ Unwrap(w.step) \in steps'.done

\* C18: a step assigned in the assignment phase at clock c occupies its
\* worker for exactly delay + duration ticks, the duration being 1 for
\* 'A', 2 for 'B', up to 26 for 'Z': the worker stays busy with a counter
\* of 1 or more until the work phase at clock c + delay + duration, where
\* the step enters done, once, and the worker becomes idle; the counter of
\* a worker never goes below zero and a worker is idle exactly when its
\* counter is 0.
C18_OccupiedExactly ==
    /\ [][OccupiesForDelayPlusDuration]_vars
    /\ [](\A i \in 1..Len(team.workers) :
            /\ team.workers[i].remaining >= 0
            /\ (team.workers[i].step = None) = (team.workers[i].remaining = 0)
            /\ is_idle(team.workers[i]) = (team.workers[i].remaining = 0))
    /\ [](Held \cap steps.done = {})
    /\ [](\A t \in first_index..(first_index + 25) :
            get_step_duration(t) = LetterNumber(t))

\* With the delay of 60, 'B' was assigned at clock 0 and the work phase at
\* clock 62 has just put it in done, first of all steps, and left its
\* worker idle.
C18_Witness ==
    /\ pc = "check"
    /\ team.delay = delay_on
    /\ clock = 62
    /\ steps.done = {66}
    /\ \E i \in 1..Len(team.workers) :
          team.workers[i] = [step |-> None, remaining |-> 0]

\* The steps begun so far, in complete_steps as in the iterator: those no
\* longer in todo.
Begun == Universe \ steps.todo

\* With one worker, what an assignment phase of complete_steps begins is
\* the step the iterator yielded at the same position: after as many
\* steps as complete_steps has begun before.
BeginsWhatIteratorYielded ==
    (/\ pc = "check"
     /\ pc' = "work"
     /\ Len(team.workers) = 1
     /\ AcyclicInput) =>
        /\ Cardinality(NewlyHeld) <= 1
        /\ \A t \in NewlyHeld :
              /\ Cardinality(Begun) + 1 <= Len(answer)
              /\ t = answer[Cardinality(Begun) + 1]
        /\ steps.todo \ steps'.todo = NewlyHeld

\* C19: with one worker and an acyclic list, complete_steps begins the
\* steps in the order in which the iterator yielded them on the same list,
\* with the delay and without it, and when it returns it has begun as many
\* steps as the iterator yielded.
C19_OneWorkerBeginsInIteratorOrder ==
    /\ [][BeginsWhatIteratorYielded]_vars
    /\ []((pc = "returned" /\ Len(team.workers) = 1 /\ AcyclicInput) =>
            /\ Cardinality(Begun) = Len(answer)
            /\ Begun = Range(answer))

\* complete_steps with one worker has returned after three steps of which
\* the iterator did not yield the smallest first.
C19_Witness ==
    /\ pc = "returned"
    /\ Len(team.workers) = 1
    /\ AcyclicInput
    /\ Len(answer) = 3
    /\ answer[1] > answer[2]

\* C20: whenever complete_steps returns, every worker of the team holds no
\* step and has counter 0, so the team is what Team::new makes; a second
\* call on that team with a new Steps goes state by state as the same call
\* on a new team of the same size and delay, and returns the same value.
C20_TeamReusable ==
    /\ (pc = "returned") =>
          /\ \A i \in 1..Len(team.workers) :
                team.workers[i] = [step |-> None, remaining |-> 0]
          /\ team = Team_new(Len(team.workers), team.delay = delay_on)
    /\ (Len(ref) = 1) =>
          /\ ref[1].team = team
          /\ ref[1].steps = steps
          /\ ref[1].clock = clock
          /\ ref[1].pc = pc
          /\ (pc = "returned") =>
                /\ Len(results) = 2
                /\ ref[1].results = <<results[2]>>

\* The second call on a team of two workers has returned, later than the
\* first call did on another list.
C20_Witness ==
    /\ pc = "returned"
    /\ Len(results) = 2
    /\ Len(team.workers) = 2
    /\ results[1] >= 2
    /\ results[2] > results[1]

\* The Manhattan distance of two points, as a number without width.
Manhattan(p, q) ==
    (IF p.x > q.x THEN p.x - q.x ELSE q.x - p.x)
        + (IF p.y > q.y THEN p.y - q.y ELSE q.y - p.y)

\* points[k] of the code (k counts from 0) is nearer to `from` than every
\* other entry of points.
StrictlyClosest(k) ==
    \A j \in 0..(Len(points) - 1) :
        j # k => Manhattan(from, points[k + 1]) < Manhattan(from, points[j + 1])

\* C21: get_closest_point(from, points) returns Some(i) if and only if
\* points[i] is at a Manhattan distance from `from` strictly smaller than
\* that of every other entry of points, and returns None whenever the
\* smallest distance is shared by two entries or more (duplicates
\* included) or points is empty.
C21_SomeIffStrictlyClosest ==
    (pc = "returned") =>
        /\ owner # None => Unwrap(owner) \in 0..(Len(points) - 1)
        /\ \A k \in 0..(Len(points) - 1) :
              (owner = Some(k)) = StrictlyClosest(k)
        /\ (\A k \in 0..(Len(points) - 1) : ~StrictlyClosest(k)) =>
              owner = None

====
